---- MODULE Spec2Model ----
(***************************************************************************)
(* The request handler of src/app.py: POST /api/call.  Each request runs   *)
(* call_openai: parse and validate the JSON body, invoke the remote chat   *)
(* completion, derive error_flag from the reply, insert one APICall row,   *)
(* answer.  Requests run concurrently (one server thread and one database  *)
(* session each) and meet only in the api_calls table.                     *)
(***************************************************************************)
EXTENDS Integers, Sequences, FiniteSets, TLC

(* ------------------------------ bounds -------------------------------- *)

\* Number of requests in flight in one behaviour.
NumReq == 2

\* Longest reply text the remote call returns in the error_flag specification.
MaxReplyLen == 5

\* re.search(r'[\n\r]{4,}', reply): the least run length that raises the flag.
MinRun == 4

Requests == 1..NumReq

(* --------------------------- JSON values ------------------------------ *)

\* data.get(k) of a key the body does not hold.
Absent == "<absent>"

\* JSON null (Python None).
None == "<null>"

\* The parsed JSON array [] and a non-empty array of role/content pairs.
EmptyList == "<list:0>"

Msgs == "<list:user>"

\* Python truthiness of the values the bodies below carry: None, "", [] and
\* a missing key (data.get gives None) are falsy; "0.0" stands for the
\* number 0.0, which only temperature takes.
Falsy == {Absent, None, "", EmptyList, "0.0"}

Truthy(v) == v \notin Falsy

\* bool(all(xs)) for a sequence of values.
All(xs) == \A i \in 1..Len(xs) : Truthy(xs[i])

\* dict.get(key, default): the default only replaces a missing key, an
\* explicit null stays None.
Get(v, default) == IF v = Absent THEN default ELSE v

\* json.dumps(messages, ensure_ascii=False): the parsed array as text.
JsonDumps(m) ==
  CASE m = EmptyList -> "[]"
    [] m = Msgs      -> "[{\"role\": \"user\", \"content\": \"hi\"}]"
    [] OTHER         -> "null"

(* --------------------------- request bodies --------------------------- *)

\* kind: "invalid" (not JSON), "null" (JSON null), "array" (a non-empty JSON
\* array such as [1]), "object".  Only an object has keys.
MkBody(kind, api_key, messages, model, response_format, uuid, temperature) ==
  [kind |-> kind, api_key |-> api_key, messages |-> messages, model |-> model,
   response_format |-> response_format, uuid |-> uuid,
   temperature |-> temperature]

NoBody == MkBody("none", Absent, Absent, Absent, Absent, Absent, Absent)

NonObject(kind) == MkBody(kind, Absent, Absent, Absent, Absent, Absent, Absent)

Canonical == MkBody("object", "k", Msgs, "gpt-x", Absent, "u1", Absent)

Uuids == {"u1", "u2"}

ValidBodies ==
  {[Canonical EXCEPT !.response_format = f] :
      f \in {Absent, "text", "json", "xml"}}
  \cup {[Canonical EXCEPT !.uuid = u, !.response_format = "json"] : u \in Uuids}
  \cup {[Canonical EXCEPT !.temperature = "0.0"]}

RejectedBodies ==
  {NonObject("invalid"), NonObject("null"), NonObject("array"),
   NonObject("object"),
   [Canonical EXCEPT !.api_key = Absent],
   [Canonical EXCEPT !.messages = EmptyList],
   [Canonical EXCEPT !.model = ""],
   [Canonical EXCEPT !.uuid = Absent],
   [Canonical EXCEPT !.response_format = ""],
   [Canonical EXCEPT !.response_format = None]}

Bodies == ValidBodies \cup RejectedBodies

\* The locals of call_openai read from the body.
ApiKey(b) == b.api_key

Messages(b) == b.messages

ModelName(b) == b.model

ResponseFormat(b) == Get(b.response_format, "text")

Uuid(b) == b.uuid

Temperature(b) == Get(b.temperature, "1.0")

\* `not data`: null and the object without keys are falsy.
DataFalsy(b) ==
  \/ b.kind = "null"
  \/ /\ b.kind = "object"
     /\ \A v \in {b.api_key, b.messages, b.model, b.response_format, b.uuid,
                  b.temperature} : v = Absent

\* Variant: response_format left out of the check.
RequiredPresentFourOnly(b) ==
  All(<<ApiKey(b), Messages(b), ModelName(b), Uuid(b)>>)

\* all([api_key, messages, model_name, response_format, uuid])
RequiredPresent(b) ==
  All(<<ApiKey(b), Messages(b), ModelName(b), ResponseFormat(b), Uuid(b)>>)

(* --------------------------- remote replies --------------------------- *)

NewlineClass == {"\n", "\r"}

Chars == {"a"} \cup NewlineClass

RECURSIVE SeqsUpTo(_)
SeqsUpTo(n) ==
  IF n = 0 THEN {<<>>}
  ELSE LET shorter == SeqsUpTo(n - 1)
       IN  shorter \cup {Append(s, c) : s \in {t \in shorter : Len(t) = n - 1},
                                         c \in Chars}

AllReplies == SeqsUpTo(MaxReplyLen)

FewReplies == {<<"a", "\n", "\r", "\n", "\n", "b">>}

Usage == [present |-> TRUE, prompt_tokens |-> 3, completion_tokens |-> 5]

NoUsage == [present |-> FALSE, prompt_tokens |-> 0, completion_tokens |-> 0]

\* What client.chat.completions.create does: it raises, or it returns a
\* response with a list of choices (message contents, a content being text
\* or null) and usage data (possibly missing).
Text(t) == [null |-> FALSE, text |-> t]

NullContent == [null |-> TRUE, text |-> <<>>]

Returned(choices, usage) ==
  [raised |-> FALSE, details |-> "", choices |-> choices, usage |-> usage]

Raised(details) ==
  [raised |-> TRUE, details |-> details, choices |-> <<>>, usage |-> NoUsage]

NoOutcome == [raised |-> FALSE, details |-> "<none>", choices |-> <<>>,
              usage |-> NoUsage]

Outcomes(replies) ==
  {Raised("APIConnectionError")}
  \cup {Returned(<<Text(t)>>, Usage) : t \in replies}
  \cup {Returned(<<>>, Usage), Returned(<<NullContent>>, Usage),
        Returned(<<Text(<<"a">>)>>, NoUsage)}

\* time.time() - start_time, in whole seconds.
Durations == {2}

(* ------------------------------ state --------------------------------- *)

VARIABLES
  pc,       \* pc[r]: where request r stands in call_openai
  body,     \* body[r]: the request body as sent
  calls,    \* calls[r]: the arguments of each chat.completions.create call
  remote,   \* remote[r]: what the remote call returned or raised
  rec,      \* rec[r]: call_record, once built
  pending,  \* pending[r]: objects added to r's db.session, not yet committed
  inserts,  \* inserts[r]: number of db.session.commit() attempts
  store,    \* the rows of table api_calls, in insertion order
  owner,    \* owner[i]: the request that inserted row i
  exc,      \* exc[r]: the exception the insert raised
  resp      \* resp[r]: the HTTP response of r

vars ==
  <<pc, body, calls, remote, rec, pending, inserts, store, owner, exc, resp>>

NoRec == [uuid |-> Absent]

\* An exception as the handlers see it: its class and, for an error raised
\* while a statement ran, the parameters bound to that statement.
Exc(type, parameters) == [type |-> type, parameters |-> parameters]

NoExc == Exc("", NoRec)

\* str(e).  The store's statement errors print the statement and the
\* parameters bound to it after the message.
Str(e) == [text |-> e.type, parameters |-> e.parameters]

NoResp == [status |-> 0, body |-> [none |-> TRUE]]

Init ==
  /\ pc = [r \in Requests |-> "idle"]
  /\ body = [r \in Requests |-> NoBody]
  /\ calls = [r \in Requests |-> <<>>]
  /\ remote = [r \in Requests |-> NoOutcome]
  /\ rec = [r \in Requests |-> NoRec]
  /\ pending = [r \in Requests |-> <<>>]
  /\ inserts = [r \in Requests |-> 0]
  /\ store = <<>>
  /\ owner = <<>>
  /\ exc = [r \in Requests |-> NoExc]
  /\ resp = [r \in Requests |-> NoResp]

(* ----------------------------- responses ------------------------------ *)

\* jsonify({...}), status
Json(status, fields) == [status |-> status, body |-> fields]

\* get_json() aborting on a body that is not JSON.
BadRequest == [status |-> 400, body |-> [html |-> "Bad Request"]]

\* An exception that leaves call_openai: the framework's error page.
InternalServerError ==
  [status |-> 500, body |-> [html |-> "Internal Server Error"]]

InvalidJson == Json(400, [error |-> "invalid JSON data"])

MissingParams == Json(400, [error |-> "missing required parameters"])

OpenAIFailed(e) ==
  Json(500, [error |-> "OpenAI API call failed", details |-> Str(e)])

DatabaseError(e) ==
  Json(500, [error |-> "database error", details |-> Str(e)])

Success(reply, prompt_tokens, completion_tokens, duration, error_flag) ==
  Json(200, [reply |-> reply, prompt_tokens |-> prompt_tokens,
             completion_tokens |-> completion_tokens,
             call_duration |-> duration, error_flag |-> error_flag])

\* return <response>: the handler ends.
Return(r, response) ==
  /\ pc' = [pc EXCEPT ![r] = "done"]
  /\ resp' = [resp EXCEPT ![r] = response]

(* ------------------------ validation (57-75) -------------------------- *)

\* The response of lines 57-75, or NoResp when the request passes them.
Validate(b) ==
  IF b.kind = "invalid" THEN BadRequest
  ELSE IF DataFalsy(b) THEN InvalidJson
  ELSE IF b.kind # "object" THEN InternalServerError  \* data.get: AttributeError
  ELSE IF ~RequiredPresent(b) THEN MissingParams
  ELSE NoResp

Receive(r, bodies) ==
  /\ pc[r] = "idle"
  /\ \E b \in bodies :
       /\ body' = [body EXCEPT ![r] = b]
       /\ IF Validate(b) = NoResp
          THEN /\ pc' = [pc EXCEPT ![r] = "validated"]
               /\ UNCHANGED resp
          ELSE Return(r, Validate(b))
  /\ UNCHANGED <<calls, remote, rec, pending, inserts, store, owner, exc>>

(* ------------------------ remote call (78-100) ------------------------ *)

\* Variant: the hint passed on both branches.
CreateArgsAlwaysHint(b, hint) ==
  [api_key |-> ApiKey(b), model |-> ModelName(b), messages |-> Messages(b),
   temperature |-> Temperature(b), hint |-> TRUE]

\* The keyword arguments of client.chat.completions.create, with the key the
\* client was built from; hint is response_format={"type": "json_object"}.
CreateArgs(b, hint) ==
  [api_key |-> ApiKey(b), model |-> ModelName(b), messages |-> Messages(b),
   temperature |-> Temperature(b), hint |-> hint]

\* Variant: the failed call is tried again.
RemoteFailedRetry(r, e) ==
  /\ pc' = [pc EXCEPT ![r] = "validated"]
  /\ UNCHANGED resp

\* except Exception as e: log and return (no retry).
RemoteFailed(r, e) == Return(r, OpenAIFailed(e))

CallRemote(r, outcomes) ==
  /\ pc[r] = "validated"
  /\ IF ResponseFormat(body[r]) \in {"json", "text"}
     THEN /\ calls' = [calls EXCEPT ![r] =
                 Append(@, CreateArgs(body[r], ResponseFormat(body[r]) = "json"))]
          /\ \E o \in outcomes :
               /\ remote' = [remote EXCEPT ![r] = o]
               /\ IF o.raised
                  THEN RemoteFailed(r, Exc(o.details, NoRec))
                  ELSE /\ pc' = [pc EXCEPT ![r] = "responded"]
                       /\ UNCHANGED resp
     ELSE /\ RemoteFailed(r, Exc("AttributeError: Error response_format", NoRec))
          /\ UNCHANGED <<calls, remote>>
  /\ UNCHANGED <<body, rec, pending, inserts, store, owner, exc>>

(* -------------------- reply and record (103-128) ---------------------- *)

\* Variant: the class r'[\n]', carriage returns not counted.
ReSearchNewlineOnly(reply) ==
  \E i \in 1..Len(reply) :
     /\ i + MinRun - 1 <= Len(reply)
     /\ \A k \in 0..(MinRun - 1) : reply[i + k] = "\n"

\* re.search(r'[\n\r]{4,}', reply): some position starts MinRun characters
\* of the class.
ReSearch(reply) ==
  \E i \in 1..Len(reply) :
     /\ i + MinRun - 1 <= Len(reply)
     /\ \A k \in 0..(MinRun - 1) : reply[i + k] \in NewlineClass

ErrorFlag(reply) == IF ReSearch(reply) THEN 1 ELSE 0

\* response.choices[0] (IndexError), response.usage.<x> (AttributeError) and
\* re.search on a reply that is not text (TypeError) raise outside any try.
ParseRaises(o) ==
  \/ o.choices = <<>>
  \/ ~o.usage.present
  \/ o.choices[1].null

\* request.remote_addr or 'unknown'
RequestIp(addr) == IF Truthy(addr) THEN addr ELSE "unknown"

\* APICall(...): total_tokens is not passed and stays NULL; call_time, the
\* wall clock at construction, is left out of the model.
APICall(b, reply, usage, duration, error_flag) ==
  [uuid |-> Uuid(b), messages |-> JsonDumps(Messages(b)),
   model |-> ModelName(b), response_format |-> ResponseFormat(b),
   temperature |-> Temperature(b), reply |-> reply,
   prompt_tokens |-> usage.prompt_tokens,
   completion_tokens |-> usage.completion_tokens, total_tokens |-> None,
   call_duration |-> duration, error_flag |-> error_flag,
   request_ip |-> RequestIp("10.0.0.1")]

Derive(r) ==
  /\ pc[r] = "responded"
  /\ IF ParseRaises(remote[r])
     THEN /\ Return(r, InternalServerError)
          /\ UNCHANGED rec
     ELSE /\ \E d \in Durations :
               rec' = [rec EXCEPT ![r] =
                 APICall(body[r], remote[r].choices[1].text, remote[r].usage,
                         d, ErrorFlag(remote[r].choices[1].text))]
          /\ pc' = [pc EXCEPT ![r] = "built"]
          /\ UNCHANGED resp
  /\ UNCHANGED <<body, calls, remote, pending, inserts, store, owner, exc>>

(* ------------------------ persistence (130-136) ----------------------- *)

\* Variant: uuid without primary_key=True.
NoPrimaryKey(rows, row) == FALSE

\* uuid is the primary key of api_calls.
PrimaryKeyConflict(rows, row) ==
  \E i \in 1..Len(rows) : rows[i].uuid = row.uuid

\* The INSERT of the flush.
Insert(rows, row) == Append(rows, row)

\* Variant: the failed row is written all the same.
RowsAfterRollbackKeepsRow(rows, row) == Append(rows, row)

\* Variant: the failure handler clears the table of the record's uuid.
RowsAfterRollbackDeletes(rows, row) ==
  SelectSeq(rows, LAMBDA x : x.uuid # row.uuid)

\* db.session.rollback(): the pending object is dropped, committed rows stay.
RowsAfterRollback(rows, row) == rows

\* What the store does to the commit besides the key check: nothing, or it
\* cannot write the file (raised outside the INSERT statement).
Faults == {"none", "disk"}

\* The exception db.session.commit() raises, NoExc when the row is written.
\* The conflict is raised by the INSERT, with the row as its parameters.
CommitRaises(rows, row, fault) ==
  IF fault = "disk" THEN Exc("OperationalError", NoRec)
  ELSE IF PrimaryKeyConflict(rows, row) THEN Exc("IntegrityError", row)
  ELSE NoExc

\* db.session.add(call_record); db.session.commit()
Persist(r) ==
  /\ pc[r] = "built"
  /\ inserts' = [inserts EXCEPT ![r] = @ + 1]
  /\ \E fault \in Faults :
       IF CommitRaises(store, rec[r], fault) # NoExc
       THEN /\ pc' = [pc EXCEPT ![r] = "failed"]
            /\ pending' = [pending EXCEPT ![r] = <<rec[r]>>]
            /\ exc' = [exc EXCEPT ![r] = CommitRaises(store, rec[r], fault)]
            /\ UNCHANGED <<store, owner>>
       ELSE /\ pc' = [pc EXCEPT ![r] = "committed"]
            /\ store' = Insert(store, rec[r])
            /\ owner' = Append(owner, r)
            /\ UNCHANGED <<pending, exc>>
  /\ UNCHANGED <<body, calls, remote, rec, resp>>

\* except Exception as e: rollback and return.
Rollback(r) ==
  /\ pc[r] = "failed"
  /\ pending' = [pending EXCEPT ![r] = <<>>]
  /\ store' = RowsAfterRollback(store, rec[r])
  /\ Return(r, DatabaseError(exc[r]))
  /\ UNCHANGED <<body, calls, remote, rec, inserts, owner, exc>>

(* -------------------------- answer (138-151) -------------------------- *)

Respond(r) ==
  /\ pc[r] = "committed"
  /\ Return(r, Success(rec[r].reply, rec[r].prompt_tokens,
                       rec[r].completion_tokens, rec[r].call_duration,
                       rec[r].error_flag))
  /\ UNCHANGED
       <<body, calls, remote, rec, pending, inserts, store, owner, exc>>

(* --------------------------- specifications --------------------------- *)

call_openai(r, bodies, outcomes) ==
  \/ Receive(r, bodies)
  \/ CallRemote(r, outcomes)
  \/ Derive(r)
  \/ Persist(r)
  \/ Rollback(r)
  \/ Respond(r)

Next == \E r \in Requests : call_openai(r, Bodies, Outcomes(FewReplies))

Spec == Init /\ [][Next]_vars

(* ------------------------------ claims -------------------------------- *)

\* The rows request r inserted.
Rows(r) == {i \in 1..Len(owner) : owner[i] = r}

Done(r) == pc[r] = "done"

\* One of api_key, messages, model, uuid is absent or falsy in body b.
MissingRequired(b) ==
  \E v \in {b.api_key, b.messages, b.model, b.uuid} : v \in Falsy

\* The keys of the success response.
ResultKeys ==
  {"reply", "prompt_tokens", "completion_tokens", "call_duration", "error_flag"}

\* C1: every request in which one of api_key, messages, model, uuid is absent
\* or falsy is answered 400 with an error body, without a remote call and
\* without a stored record.
C1_MissingFieldIs400 ==
  \A r \in Requests :
    (Done(r) /\ MissingRequired(body[r])) =>
       /\ resp[r].status = 400
       /\ DOMAIN resp[r].body \cap ResultKeys = {}
       /\ calls[r] = <<>>
       /\ Rows(r) = {}

\* C2: a request holds exactly one row, carrying its uuid, from its commit
\* on, and no row otherwise; when no request is in flight the number of rows
\* is the number of requests answered 200.
C2_OneRecordPerSuccess ==
  /\ Len(store) = Len(owner)
  /\ \A r \in Requests :
       /\ Cardinality(Rows(r)) =
            IF pc[r] = "committed" \/ resp[r].status = 200 THEN 1 ELSE 0
       /\ \A i \in Rows(r) : store[i].uuid = body[r].uuid
  /\ (\A r \in Requests : pc[r] \in {"idle", "done"}) =>
        Len(store) = Cardinality({r \in Requests : resp[r].status = 200})

\* Two requests are over, one answered 200 and one 500 after its insert failed.
C2_Witness ==
  \E r, q \in Requests :
     /\ Done(r) /\ resp[r].status = 200
     /\ Done(q) /\ resp[q].status = 500 /\ inserts[q] = 1
     /\ Len(store) = 1

\* C3: no two rows share a uuid; a commit attempted while the table holds a
\* row with the same uuid fails with a primary-key conflict and leaves the
\* table as it was; the request that inserted the row is answered 200 and a
\* request whose insert met the conflict is answered 500.
C3_UuidUnique ==
  /\ [](\A i, j \in 1..Len(store) : store[i].uuid = store[j].uuid => i = j)
  /\ [][\A r \in Requests :
          (/\ pc[r] = "built" /\ pc'[r] # "built"
           /\ \E i \in 1..Len(store) : store[i].uuid = rec[r].uuid)
          => /\ pc'[r] = "failed"
             /\ exc'[r].type \in {"IntegrityError", "OperationalError"}
             /\ store' = store]_vars
  /\ [](\A r \in Requests :
          Done(r) =>
            /\ Rows(r) # {} => resp[r].status = 200
            /\ exc[r].type = "IntegrityError" =>
                 (resp[r].status = 500 /\ Rows(r) = {}))

\* The table holds one row and a second request with the same uuid has been
\* answered 500 after the conflict.
C3_Witness ==
  \E r, q \in Requests :
     /\ Done(r) /\ Rows(r) # {} /\ resp[r].status = 200
     /\ Done(q) /\ exc[q].type = "IntegrityError" /\ body[q].uuid = body[r].uuid
     /\ resp[q].status = 500

\* C4: when the insert fails after a successful remote call, the session is
\* rolled back, the answer is 500 with an error message and a details string,
\* nothing of the remote result reaches the caller, and the request leaves
\* no row.
C4_InsertFailureDiscardsResult ==
  \A r \in Requests :
    (Done(r) /\ exc[r] # NoExc) =>
       /\ pending[r] = <<>>
       /\ resp[r].status = 500
       /\ DOMAIN resp[r].body = {"error", "details"}
       /\ resp[r].body.details.parameters = NoRec
       /\ Rows(r) = {}

\* The remote call of r was made and failed: it raised, or what it returned
\* cannot be read (no choices, a reply that is not text, no usage).
RemoteFailure(r) ==
  /\ calls[r] # <<>>
  /\ remote[r].raised \/ ParseRaises(remote[r])

\* C5: every remote failure, raised or a malformed response, is answered 500
\* with a JSON body carrying an error message and details, and stores nothing.
C5_RemoteFailureIsJson500 ==
  \A r \in Requests :
    (Done(r) /\ RemoteFailure(r)) =>
       /\ resp[r].status = 500
       /\ {"error", "details"} \subseteq DOMAIN resp[r].body
       /\ Rows(r) = {}

\* C6 as stated: a request with the four required fields truthy and a
\* response_format other than "text" and "json" is answered 500 without a
\* remote call and without a row; every row holds "text" or "json".
C6_Original ==
  /\ \A r \in Requests :
       (/\ Done(r) /\ body[r].kind = "object" /\ ~MissingRequired(body[r])
        /\ body[r].response_format \notin {Absent, "text", "json"})
       => (resp[r].status = 500 /\ calls[r] = <<>> /\ Rows(r) = {})
  /\ \A i \in 1..Len(store) : store[i].response_format \in {"text", "json"}

\* C6 amended: with the four required fields truthy, a truthy response_format
\* other than "text" and "json" is answered 500 (a JSON error body), a falsy
\* one (empty string, null) is answered 400; neither reaches the remote call
\* or the table; every row holds "text" or "json".
C6_UnknownFormat ==
  /\ \A r \in Requests :
       (/\ Done(r) /\ body[r].kind = "object" /\ ~MissingRequired(body[r])
        /\ body[r].response_format \notin {Absent, "text", "json"})
       => /\ resp[r].status =
               IF body[r].response_format \in Falsy THEN 400 ELSE 500
          /\ "error" \in DOMAIN resp[r].body
          /\ calls[r] = <<>>
          /\ Rows(r) = {}
  /\ \A i \in 1..Len(store) : store[i].response_format \in {"text", "json"}

\* One request with response_format "xml" was answered 500 and one with
\* response_format "" was answered 400.
C6_Witness ==
  \E r, q \in Requests :
     /\ Done(r) /\ body[r].response_format = "xml" /\ resp[r].status = 500
     /\ ~MissingRequired(body[q])
     /\ Done(q) /\ body[q].response_format = "" /\ resp[q].status = 400

\* C7: every remote call carries the request's model, messages and
\* temperature (1.0 when omitted) and the structured-output hint exactly when
\* the request's response_format is "json"; a validated request with
\* response_format "json", "text" or omitted makes the call.
C7_CallArguments ==
  \A r \in Requests :
    /\ \A i \in 1..Len(calls[r]) :
         /\ calls[r][i].model = body[r].model
         /\ calls[r][i].messages = body[r].messages
         /\ calls[r][i].api_key = body[r].api_key
         /\ calls[r][i].temperature =
              IF body[r].temperature = Absent THEN "1.0"
              ELSE body[r].temperature
         /\ calls[r][i].hint <=> (body[r].response_format = "json")
         /\ body[r].response_format \in {Absent, "text"} => ~calls[r][i].hint
    /\ (/\ pc[r] \notin {"idle", "validated"} /\ Validate(body[r]) = NoResp
        /\ body[r].response_format \in {Absent, "text", "json"})
       => Len(calls[r]) = 1

\* One call was made with the hint for a "json" request and one without it
\* for a request that omits response_format.
C7_Witness ==
  \E r, q \in Requests :
     /\ body[r].response_format = "json" /\ Len(calls[r]) = 1
     /\ calls[r][1].hint
     /\ body[q].response_format = Absent /\ Len(calls[q]) = 1
     /\ ~calls[q][1].hint

\* The length of the run of newline and carriage-return characters that ends
\* at position i of s.
RECURSIVE RunEndingAt(_, _)
RunEndingAt(s, i) ==
  IF i = 0 \/ s[i] \notin {"\n", "\r"} THEN 0 ELSE 1 + RunEndingAt(s, i - 1)

HasLongRun(s) == \E i \in 1..Len(s) : RunEndingAt(s, i) >= 4

\* C8: error_flag is 1 exactly when the reply holds a run of 4 or more
\* newline or carriage-return characters; the row and the 200 response carry
\* that value.
C8_ErrorFlag ==
  \A r \in Requests :
    rec[r] # NoRec =>
      /\ rec[r].reply = remote[r].choices[1].text
      /\ rec[r].error_flag = IF HasLongRun(rec[r].reply) THEN 1 ELSE 0
      /\ \A i \in Rows(r) : store[i].error_flag = rec[r].error_flag
      /\ resp[r].status = 200 =>
           /\ resp[r].body.error_flag = rec[r].error_flag
           /\ resp[r].body.reply = rec[r].reply

\* A request was answered 200 with error_flag 1 for a reply whose run mixes
\* the two characters, and its row carries the flag.
C8_Witness ==
  \E r \in Requests :
     /\ resp[r].status = 200
     /\ resp[r].body.reply = <<"a", "\n", "\r", "\r", "\n">>
     /\ resp[r].body.error_flag = 1
     /\ \E i \in Rows(r) : store[i].error_flag = 1

\* The error_flag specification: one request, every reply up to MaxReplyLen.
FlagNext == call_openai(1, Bodies, Outcomes(AllReplies))

FlagSpec == Init /\ [][FlagNext]_vars

\* The steps of a request once it has been received.
Handle(r, outcomes) ==
  \/ CallRemote(r, outcomes)
  \/ Derive(r)
  \/ Persist(r)
  \/ Rollback(r)
  \/ Respond(r)

\* The inputs of the fair specification: a body for each way through the
\* handler, and a call that raises, returns a reply, or returns no choices.
FairBodies ==
  {Canonical, [Canonical EXCEPT !.uuid = "u2"],
   [Canonical EXCEPT !.response_format = "xml"],
   [Canonical EXCEPT !.api_key = Absent], NonObject("array")}

FairOutcomes ==
  {Raised("APIConnectionError"), Returned(<<>>, Usage)}
  \cup {Returned(<<Text(t)>>, Usage) : t \in FewReplies}

FairNext == \E r \in Requests : call_openai(r, FairBodies, FairOutcomes)

\* A server thread that holds a request keeps running, and the remote call
\* returns or raises (the client's timeout).
FairSpec ==
  /\ Init
  /\ [][FairNext]_vars
  /\ \A r \in Requests : WF_vars(Handle(r, FairOutcomes))

\* C9: per request the remote call is made at most once and the commit is
\* attempted at most once, the commit only after the remote call returned a
\* readable response, the 200 only after the row is written; a request has a
\* response exactly when it is over, one of 200, 400 and 500, which never
\* changes; every received request is eventually over.
C9_LinearSequence ==
  /\ [](\A r \in Requests :
          /\ Len(calls[r]) <= 1
          /\ inserts[r] <= 1
          /\ inserts[r] = 1 =>
               /\ Len(calls[r]) = 1
               /\ ~remote[r].raised
               /\ ~ParseRaises(remote[r])
          /\ resp[r].status = 200 => (inserts[r] = 1 /\ Rows(r) # {})
          /\ Done(r) <=> resp[r] # NoResp
          /\ Done(r) => resp[r].status \in {200, 400, 500})
  /\ [][\A r \in Requests :
          Done(r) => (pc'[r] = "done" /\ resp'[r] = resp[r])]_vars
  /\ \A r \in Requests : (pc[r] # "idle") ~> Done(r)

\* Every request is over: one answered 200, one answered 500 after its remote
\* call raised.
C9_Witness ==
  /\ \A r \in Requests : Done(r)
  /\ \E r, q \in Requests :
       /\ resp[r].status = 200 /\ Len(calls[r]) = 1 /\ inserts[r] = 1
       /\ resp[q].status = 500 /\ Len(calls[q]) = 1 /\ remote[q].raised
       /\ inserts[q] = 0

\* C10: every step leaves every row of the table in place and unchanged.
C10_RecordsNeverChange ==
  [][/\ Len(store') >= Len(store)
     /\ \A i \in 1..Len(store) : store'[i] = store[i]]_vars

\* The table holds a row and a later request with the same uuid has failed
\* at its insert and been answered.
C10_Witness ==
  \E r, q \in Requests :
     /\ Rows(r) # {}
     /\ Done(q) /\ exc[q].type = "IntegrityError"
     /\ \E i \in Rows(r) : store[i] = rec[r] /\ store[i].uuid = rec[q].uuid

====
